---- MODULE Spec2Model ----
(***************************************************************************)
(* Instrument drivers of Instrumental: the Newport 1830-C and 2936-R power *)
(* meters (drivers/powermeters/newport.py) and the Tektronix scopes        *)
(* (drivers/scopes/tektronix.py), each run against a model of its device.  *)
(*                                                                         *)
(* Text that the code inspects character by character (arguments that are  *)
(* lower-cased, replies that are parsed by int() or float()) is a tuple of *)
(* one-character strings.  Bytes of a binary block are integers 0..255.    *)
(* A float is an exact rational <<numerator, denominator>>.                *)
(***************************************************************************)
EXTENDS Integers, Sequences, FiniteSets, TLC

VARIABLES
    pc,              \* 1830-C: position of the driver inside the current call
    sent,            \* 1830-C: commands the device received during the current call
    devUnits,        \* 1830-C: the device's units mode, 1..4
    devPower,        \* 1830-C: which optical input the detector sees (index of Inputs)
    original_units,  \* 1830-C: local of power()
    power,           \* 1830-C: local of power()
    unitsAtCall,     \* 1830-C: device units mode when the current call started
    ret,             \* 1830-C: outcome of the call that returned last
    prev,            \* 1830-C: when the last call was get_units, the call before it
    pm_pc,           \* 2936-R: position of each caller inside its current call
    pm_call,         \* 2936-R: each caller's current call: method, argument, channel
    pm_ret,          \* 2936-R: outcome of each caller's current call, once it is decided
    pm_sent,         \* 2936-R: commands the device received since the current call started
    devChannel,      \* 2936-R: the channel selected on the device
    devSettings,     \* 2936-R: the device's settings, per channel
    rxbuf,           \* 2936-R: bytes the device has sent that the driver has not read
    chanAtCall,      \* 2936-R: devChannel when the current call started
    settingsAtCall,  \* 2936-R: devSettings when the current call started
    pyMajor,         \* scope: major version of the Python interpreter running the driver
    acq,             \* scope: the acquisition held by the scope (index of Acquisitions)
    scope,           \* scope: the scope's data transfer settings
    tk_pc,           \* scope: position of get_data: "idle", "io", "decode", "done"
    tk_channel,      \* scope: get_data's channel argument
    tk_loc,          \* scope: get_data's local variables
    tk_io,           \* scope: the bus transfers of the current call, in order
    tk_ret,          \* scope: outcome of the current call, once it is decided
    variant,         \* scope statistics: the driver class, "TDS_3000" or "MSO_DPO_4000"
    devMode,         \* scope statistics: the statistics mode the scope reports
    devWindow,       \* scope statistics: number of the scope's rolling statistics window
    st_pc,           \* scope statistics: position of the driver inside the current call
    st_call,         \* scope statistics: the current call: method and argument
    st_io,           \* scope statistics: the bus transfers of the current call, in order
    st_loc,          \* scope statistics: locals of read_measurement_stats
    st_ret,          \* scope statistics: outcome of the current call, once it is decided
    st_last,         \* scope statistics: the mode write that completed last
    wire,            \* 2936-R: bytes the device has still to send
    rd_pc,           \* 2936-R: position inside read() or flush_read()
    rd_op,           \* 2936-R: which of read() and flush_read() is running
    rd_ret,          \* 2936-R: outcome of read() or flush_read(), once it is decided
    rd_timeouts,     \* 2936-R: timeouts of read_bytes(1) in the current call (saturating)
    rd_discarded,    \* 2936-R: bytes the current flush_read() has read and dropped
    rd_arrived,      \* 2936-R: bytes pending at the call and arrived since
    in_pc,           \* 2936-R: position inside _initialize
    in_ret           \* 2936-R: outcome of _initialize, once it is decided

vars1830 == <<pc, sent, devUnits, devPower, original_units, power, unitsAtCall, ret, prev>>

vars2936 == <<pm_pc, pm_call, pm_ret, pm_sent, devChannel, devSettings, rxbuf, chanAtCall,
              settingsAtCall>>

varsTek == <<pyMajor, acq, scope, tk_pc, tk_channel, tk_loc, tk_io, tk_ret>>

varsRd == <<wire, rd_pc, rd_op, rd_ret, rd_timeouts, rd_discarded, rd_arrived, in_pc, in_ret>>

varsStats == <<variant, devMode, devWindow, st_pc, st_call, st_io, st_loc, st_ret, st_last>>

vars == <<vars1830, vars2936, varsTek, varsStats, varsRd>>

\* what a step of one instrument leaves alone: the other instruments
not1830 == <<vars2936, varsTek, varsStats, varsRd>>

not2936 == <<vars1830, varsTek, varsStats, varsRd>>

notTek == <<vars1830, vars2936, varsStats, varsRd>>

notStats == <<vars1830, vars2936, varsTek, varsRd>>

(***************************************************************************)
(* Python text and number conversions.                                     *)
(***************************************************************************)
Digits == <<"0", "1", "2", "3", "4", "5", "6", "7", "8", "9">>

UpperCase == <<"A", "B", "C", "D", "E", "F", "G", "H", "I", "J", "K", "L", "M",
               "N", "O", "P", "Q", "R", "S", "T", "U", "V", "W", "X", "Y", "Z">>

LowerCase == <<"a", "b", "c", "d", "e", "f", "g", "h", "i", "j", "k", "l", "m",
               "n", "o", "p", "q", "r", "s", "t", "u", "v", "w", "x", "y", "z">>

IsDigit(c) == \E i \in 1..10 : Digits[i] = c

DigitVal(c) == (CHOOSE i \in 1..10 : Digits[i] = c) - 1

\* str.lower() on one character
LowerChar(c) ==
    IF \E i \in 1..26 : UpperCase[i] = c
    THEN LowerCase[CHOOSE i \in 1..26 : UpperCase[i] = c]
    ELSE c

\* str.upper() on one character
UpperChar(c) ==
    IF \E i \in 1..26 : LowerCase[i] = c
    THEN UpperCase[CHOOSE i \in 1..26 : LowerCase[i] = c]
    ELSE c

\* str.lower()
Lower(s) == [i \in 1..Len(s) |-> LowerChar(s[i])]

AllDigits(s) == Len(s) > 0 /\ \A i \in 1..Len(s) : IsDigit(s[i])

RECURSIVE NatOf(_)
NatOf(s) == IF s = <<>> THEN 0 ELSE 10 * NatOf(SubSeq(s, 1, Len(s) - 1)) + DigitVal(s[Len(s)])

\* the text int() accepts: an optional sign and decimal digits
IsIntText(s) ==
    \/ AllDigits(s)
    \/ Len(s) > 1 /\ s[1] \in {"-", "+"} /\ AllDigits(Tail(s))

\* int(s) for a text int() accepts
PyInt(s) ==
    IF s[1] = "-" THEN 0 - NatOf(Tail(s))
    ELSE IF s[1] = "+" THEN NatOf(Tail(s))
    ELSE NatOf(s)

RECURSIVE NatStr(_)
NatStr(n) == IF n < 10 THEN <<Digits[n + 1]>> ELSE NatStr(n \div 10) \o <<Digits[(n % 10) + 1]>>

\* '{}'.format(n) and '%d' % n for an integer n
PyStr(n) == IF n < 0 THEN <<"-">> \o NatStr(0 - n) ELSE NatStr(n)

RECURSIVE Pow10(_)
Pow10(k) == IF k = 0 THEN 1 ELSE 10 * Pow10(k - 1)

DotAt(s) == CHOOSE i \in 1..Len(s) : s[i] = "."

\* the unsigned decimal texts float() accepts here: digits, or digits '.' digits
IsUDecimalText(s) ==
    \/ AllDigits(s)
    \/ /\ Cardinality({i \in 1..Len(s) : s[i] = "."}) = 1
       /\ AllDigits(SubSeq(s, 1, DotAt(s) - 1))
       /\ AllDigits(SubSeq(s, DotAt(s) + 1, Len(s)))

IsFloatText(s) ==
    \/ IsUDecimalText(s)
    \/ Len(s) > 1 /\ s[1] \in {"-", "+"} /\ IsUDecimalText(Tail(s))

UDecimal(s) ==
    IF AllDigits(s) THEN <<NatOf(s), 1>>
    ELSE <<NatOf(SubSeq(s, 1, DotAt(s) - 1) \o SubSeq(s, DotAt(s) + 1, Len(s))),
           Pow10(Len(s) - DotAt(s))>>

\* float(s) for a text float() accepts, as an exact rational
PyFloat(s) ==
    IF s[1] = "-" THEN <<0 - UDecimal(Tail(s))[1], UDecimal(Tail(s))[2]>>
    ELSE IF s[1] = "+" THEN UDecimal(Tail(s))
    ELSE UDecimal(s)

(***************************************************************************)
(* Newport 1830-C: the device.                                             *)
(***************************************************************************)
T_watts == <<"w", "a", "t", "t", "s">>
T_dbm == <<"d", "b", "m">>
T_db == <<"d", "b">>
T_rel == <<"r", "e", "l">>

\* What the device answers to 'D?' in each units mode, for each optical input
\* it may see: the same light reads differently in watts, dBm, dB and REL.
Inputs ==
    << <<  <<"0", ".", "0", "0", "3">>, <<"4", ".", "7", "7">>,
           <<"-", "1", ".", "2", "5">>, <<"0", ".", "7", "5">>  >>,
       <<  <<"1", "2">>, <<"4", "0", ".", "8">>,
           <<"6", ".", "0">>, <<"4", ".", "0">>  >> >>

UnitsModes == 1..4

StatusBytes == 0..255

Cmd_UQ == <<"U", "?">>
Cmd_DQ == <<"D", "?">>
Cmd_QQ == <<"Q", "?">>

\* the units mode of the device after it received cmd
DevUnitsAfter(cmd, units) ==
    IF \E k \in UnitsModes : cmd = <<"U">> \o PyStr(k)
    THEN CHOOSE k \in UnitsModes : cmd = <<"U">> \o PyStr(k)
    ELSE units

\* the device's answer to a units or data query in units mode `units`
DevReply(cmd, units, input) ==
    IF cmd = Cmd_UQ THEN PyStr(units) ELSE Inputs[input][units]

(***************************************************************************)
(* Newport 1830-C: the driver.                                             *)
(***************************************************************************)
_PARAM_ERROR == 1
_COMMAND_ERROR == 2
_SATURATED == 4
_OUT_OF_RANGE == 8
_MSG_AVAILABLE == 16
_BUSY == 32
_SERVICE_REQUEST == 64
_READY_READING == 128

RECURSIVE BitAnd(_, _)
\* Python's a & b on non-negative integers
BitAnd(a, b) ==
    IF a = 0 \/ b = 0 THEN 0
    ELSE 2 * BitAnd(a \div 2, b \div 2) + (IF a % 2 = 1 /\ b % 2 = 1 THEN 1 ELSE 0)

\* bool(n) of an integer
PyBool(n) == n # 0

\* a units table that also accepts the 2936-R's 'amps'
valid_units_amps ==
    (T_watts :> 1) @@ (T_dbm :> 2) @@ (T_db :> 3) @@ (T_rel :> 4) @@ (<<"a", "m", "p", "s">> :> 5)

\* set_units: valid_units
valid_units == (T_watts :> 1) @@ (T_dbm :> 2) @@ (T_db :> 3) @@ (T_rel :> 4)

\* get_units: units
get_units_table == (1 :> T_watts) @@ (2 :> T_db) @@ (3 :> T_dbm) @@ (4 :> T_rel)

\* the outcomes of one transfer on the bus: a write either reaches the device
\* or raises; a query may also raise after its command was delivered
WriteOutcomes == {"ok", "write_fails"}
QueryOutcomes == {"ok", "write_fails", "read_fails"}

NoArg == <<>>

Returned(op, arg, value) == [op |-> op, status |-> "ok", arg |-> arg, value |-> value]

Raised(op, arg, kind) == [op |-> op, status |-> "error", arg |-> arg, value |-> kind]

Brief(r) == [op |-> r.op, status |-> r.status, arg |-> r.arg]

NoCall == [op |-> "none", status |-> "ok", arg |-> NoArg]

\* every spelling of s in upper and lower case letters
CaseVariants(s) ==
    {t \in [1..Len(s) -> {LowerChar(s[i]) : i \in 1..Len(s)} \cup {UpperChar(s[i]) : i \in 1..Len(s)}] :
        \A i \in 1..Len(s) : t[i] \in {LowerChar(s[i]), UpperChar(s[i])}}

ValidUnitsArgs == UNION {CaseVariants(t) : t \in {T_watts, T_dbm, T_db, T_rel}}

InvalidUnitsArgs ==
    { <<>>, <<"W">>, <<"w", "a", "t", "t">>, <<"m", "W">>, <<"d", "B", "m", " ">>,
      <<"a", "m", "p", "s">>, <<"1">> }

UnitsArgs == ValidUnitsArgs \cup InvalidUnitsArgs

Callers == {1, 2}

\* read(), flush_read() and _initialize of the 2936-R are not running
RestRd ==
    /\ wire = <<>>
    /\ rd_pc = "idle"
    /\ rd_op = "none"
    /\ rd_ret = <<>>
    /\ rd_timeouts = 0
    /\ rd_discarded = <<>>
    /\ rd_arrived = <<>>
    /\ in_pc = "idle"
    /\ in_ret = <<>>

\* the 2936-R is not in use
Rest2936 ==
    /\ pm_pc = [c \in Callers |-> "idle"]
    /\ pm_call = [c \in Callers |-> <<>>]
    /\ pm_ret = [c \in Callers |-> <<>>]
    /\ pm_sent = <<>>
    /\ devChannel = 1
    /\ devSettings = <<>>
    /\ rxbuf = <<>>
    /\ chanAtCall = 1
    /\ settingsAtCall = <<>>
    /\ RestRd

\* the scope is not in use
RestTek ==
    /\ pyMajor = 2
    /\ acq = 1
    /\ scope = <<>>
    /\ tk_pc = "idle"
    /\ tk_channel = 1
    /\ tk_loc = <<>>
    /\ tk_io = <<>>
    /\ tk_ret = <<>>

\* the measurement statistics of the scope are not in use
RestStats ==
    /\ variant = "TDS_3000"
    /\ devMode = <<>>
    /\ devWindow = 0
    /\ st_pc = "idle"
    /\ st_call = <<>>
    /\ st_io = <<>>
    /\ st_loc = <<>>
    /\ st_ret = <<>>
    /\ st_last = <<>>

\* the 1830-C is not in use
Rest1830 ==
    /\ pc = "idle"
    /\ sent = <<>>
    /\ devUnits = 1
    /\ devPower = 1
    /\ original_units = <<>>
    /\ power = <<0, 1>>
    /\ unitsAtCall = 1
    /\ ret = <<>>
    /\ prev = <<>>

Init1830 ==
    /\ pc = "idle"
    /\ sent = <<>>
    /\ devUnits \in UnitsModes
    /\ devPower \in 1..Len(Inputs)
    /\ original_units = <<>>
    /\ power = <<0, 1>>
    /\ unitsAtCall = devUnits
    /\ ret = Returned("_initialize", NoArg, <<>>)
    /\ prev = NoCall
    /\ Rest2936
    /\ RestTek
    /\ RestStats

\* a call returns or raises: the driver is idle again
Finish(r) ==
    /\ pc' = "idle"
    /\ ret' = r
    /\ prev' = IF r.op = "get_units" THEN Brief(ret) ELSE NoCall
    /\ original_units' = <<>>
    /\ power' = <<0, 1>>

\* the light on the detector changes between calls
InputChanges ==
    /\ pc = "idle"
    /\ \E i \in 1..Len(Inputs) : i # devPower /\ devPower' = i
    /\ UNCHANGED <<pc, sent, devUnits, original_units, power, unitsAtCall, ret, prev>>
    /\ UNCHANGED not1830

\* power, line 88: whether the device has to be switched to watts
NotInWatts(units_reply) == units_reply # <<"1">>

\* a restore that writes a fixed mode instead of the one read at line 87
RestoreCmd_fixed(units_reply) == <<"U", "2">>

\* power, line 91: the command that restores the units mode
RestoreCmd(units_reply) == <<"U">> \o units_reply

PowerCall ==
    /\ pc = "idle"
    /\ pc' = "L87"
    /\ sent' = <<>>
    /\ unitsAtCall' = devUnits
    /\ original_units' = <<>>
    /\ power' = <<0, 1>>
    /\ UNCHANGED <<devUnits, devPower, ret, prev>>
    /\ UNCHANGED not1830

\* line 87: original_units = self.query('U?')
PowerQueryUnits ==
    /\ pc = "L87"
    /\ \E io \in QueryOutcomes :
        /\ sent' = IF io = "write_fails" THEN sent ELSE Append(sent, Cmd_UQ)
        /\ IF io = "ok"
           THEN /\ original_units' = DevReply(Cmd_UQ, devUnits, devPower)
                /\ pc' = IF NotInWatts(original_units') THEN "L89" ELSE "L93"
                /\ UNCHANGED <<ret, prev, power>>
           ELSE Finish(Raised("power", NoArg, "VisaIOError"))
    /\ UNCHANGED <<devUnits, devPower, unitsAtCall>>
    /\ UNCHANGED not1830

\* line 89: self.write('U1')
PowerWriteWatts ==
    /\ pc = "L89"
    /\ \E io \in WriteOutcomes :
        IF io = "ok"
        THEN /\ sent' = Append(sent, <<"U", "1">>)
             /\ devUnits' = DevUnitsAfter(<<"U", "1">>, devUnits)
             /\ pc' = "L90"
             /\ UNCHANGED <<ret, prev, original_units, power>>
        ELSE /\ Finish(Raised("power", NoArg, "VisaIOError"))
             /\ UNCHANGED <<sent, devUnits>>
    /\ UNCHANGED <<devPower, unitsAtCall>>
    /\ UNCHANGED not1830

\* the data query with a try/finally that restores the units mode on failure
PowerQueryData_finally ==
    /\ pc \in {"L90", "L93"}
    /\ \E io \in QueryOutcomes :
        IF io # "ok"
        THEN /\ Finish(Raised("power", NoArg, "VisaIOError"))
             /\ sent' = (IF io = "write_fails" THEN sent ELSE Append(sent, Cmd_DQ))
                            \o (IF pc = "L90" THEN <<RestoreCmd(original_units)>> ELSE <<>>)
             /\ devUnits' = IF pc = "L90" THEN DevUnitsAfter(RestoreCmd(original_units), devUnits)
                                          ELSE devUnits
        ELSE /\ sent' = Append(sent, Cmd_DQ)
             /\ power' = PyFloat(DevReply(Cmd_DQ, devUnits, devPower))
             /\ pc' = IF pc = "L90" THEN "L91" ELSE "L95"
             /\ UNCHANGED <<ret, prev, original_units, devUnits>>
    /\ UNCHANGED <<devPower, unitsAtCall>>
    /\ UNCHANGED not1830

\* lines 90 and 93: power = float(self.query('D?'))
PowerQueryData ==
    /\ pc \in {"L90", "L93"}
    /\ \E io \in QueryOutcomes :
        /\ sent' = IF io = "write_fails" THEN sent ELSE Append(sent, Cmd_DQ)
        /\ IF io # "ok"
           THEN Finish(Raised("power", NoArg, "VisaIOError"))
           ELSE IF ~IsFloatText(DevReply(Cmd_DQ, devUnits, devPower))
           THEN Finish(Raised("power", NoArg, "ValueError"))
           ELSE /\ power' = PyFloat(DevReply(Cmd_DQ, devUnits, devPower))
                /\ pc' = IF pc = "L90" THEN "L91" ELSE "L95"
                /\ UNCHANGED <<ret, prev, original_units>>
    /\ UNCHANGED <<devUnits, devPower, unitsAtCall>>
    /\ UNCHANGED not1830

\* line 91: self.write('U' + original_units)
PowerRestore ==
    /\ pc = "L91"
    /\ \E io \in WriteOutcomes :
        IF io = "ok"
        THEN /\ sent' = Append(sent, RestoreCmd(original_units))
             /\ devUnits' = DevUnitsAfter(RestoreCmd(original_units), devUnits)
             /\ pc' = "L95"
             /\ UNCHANGED <<ret, prev, original_units, power>>
        ELSE /\ Finish(Raised("power", NoArg, "VisaIOError"))
             /\ UNCHANGED <<sent, devUnits>>
    /\ UNCHANGED <<devPower, unitsAtCall>>
    /\ UNCHANGED not1830

\* line 95: return Q_(power, 'watts')
PowerReturn ==
    /\ pc = "L95"
    /\ Finish(Returned("power", NoArg, [magnitude |-> power, units |-> "watts"]))
    /\ UNCHANGED <<sent, devUnits, devPower, unitsAtCall>>
    /\ UNCHANGED not1830

\* set_units, lines 298-302: the argument passes the check
SetUnitsAccepts(units) == Lower(units) \in DOMAIN valid_units

\* set_units, line 304: the command written
SetUnitsCmd(units) == <<"U">> \o PyStr(valid_units[Lower(units)])

SetUnits ==
    /\ pc = "idle"
    /\ \E units \in UnitsArgs :
        IF ~SetUnitsAccepts(units)
        THEN /\ Finish(Raised("set_units", units, "Exception"))
             /\ sent' = <<>>
             /\ UNCHANGED devUnits
        ELSE \E io \in WriteOutcomes :
        IF io = "ok"
        THEN /\ Finish(Returned("set_units", units, <<>>))
             /\ sent' = <<SetUnitsCmd(units)>>
             /\ devUnits' = DevUnitsAfter(SetUnitsCmd(units), devUnits)
        ELSE /\ Finish(Raised("set_units", units, "VisaIOError"))
             /\ sent' = <<>>
             /\ UNCHANGED devUnits
    /\ unitsAtCall' = devUnits
    /\ UNCHANGED devPower
    /\ UNCHANGED not1830

\* get_units, lines 314-316
GetUnitsValue(reply) == get_units_table[PyInt(reply)]

GetUnits ==
    /\ pc = "idle"
    /\ \E io \in QueryOutcomes :
        /\ sent' = IF io = "write_fails" THEN <<>> ELSE <<Cmd_UQ>>
        /\ IF io # "ok"
           THEN Finish(Raised("get_units", NoArg, "VisaIOError"))
           ELSE IF ~IsIntText(DevReply(Cmd_UQ, devUnits, devPower))
           THEN Finish(Raised("get_units", NoArg, "ValueError"))
           ELSE IF PyInt(DevReply(Cmd_UQ, devUnits, devPower)) \notin DOMAIN get_units_table
           THEN Finish(Raised("get_units", NoArg, "KeyError"))
           ELSE Finish(Returned("get_units", NoArg, GetUnitsValue(DevReply(Cmd_UQ, devUnits, devPower))))
    /\ unitsAtCall' = devUnits
    /\ UNCHANGED <<devUnits, devPower>>
    /\ UNCHANGED not1830

\* a validity check that forgets the busy bit
MeasurementValid_nobusy(reg) ==
    LET is_saturated == PyBool(BitAnd(reg, _SATURATED))
        is_over_range == PyBool(BitAnd(reg, _OUT_OF_RANGE))
    IN  ~(is_saturated \/ is_over_range)

\* is_measurement_valid, lines 243-247, on the status byte reg
MeasurementValid(reg) ==
    LET is_saturated == PyBool(BitAnd(reg, _SATURATED))
        is_over_range == PyBool(BitAnd(reg, _OUT_OF_RANGE))
        is_busy == PyBool(BitAnd(reg, _BUSY))
    IN  ~(is_saturated \/ is_over_range \/ is_busy)

\* is_measurement_valid: the status byte is the device's answer to 'Q?',
\* converted by int() (MyFacet, line 40); the device's status register is
\* whatever it is at the time of the query
IsMeasurementValid ==
    /\ pc = "idle"
    /\ \E io \in QueryOutcomes :
        /\ sent' = IF io = "write_fails" THEN <<>> ELSE <<Cmd_QQ>>
        /\ IF io # "ok"
           THEN Finish(Raised("is_measurement_valid", NoArg, "VisaIOError"))
           ELSE \E reg \in StatusBytes :
                Finish(Returned("is_measurement_valid", NoArg,
                                [status_byte |-> reg, valid |-> MeasurementValid(PyInt(PyStr(reg)))]))
    /\ unitsAtCall' = devUnits
    /\ UNCHANGED <<devUnits, devPower>>
    /\ UNCHANGED not1830

Next1830 ==
    \/ InputChanges
    \/ PowerCall
    \/ PowerQueryUnits
    \/ PowerWriteWatts
    \/ PowerQueryData
    \/ PowerRestore
    \/ PowerReturn
    \/ SetUnits
    \/ GetUnits

Spec1830 == Init1830 /\ [][Next1830]_vars

\* the status byte and the validity check on their own
NextStatus ==
    \/ InputChanges
    \/ IsMeasurementValid

SpecStatus == Init1830 /\ [][NextStatus]_vars

(***************************************************************************)
(* Newport 1830-C: properties.                                             *)
(***************************************************************************)
PowerReturned == pc = "idle" /\ ret.op = "power" /\ ret.status = "ok"

PowerRaised == pc = "idle" /\ ret.op = "power" /\ ret.status = "error"

\* the commands of a complete power() call for a device that was in mode m
PowerCommands(m) ==
    IF m = 1 THEN <<Cmd_UQ, Cmd_DQ>>
    ELSE <<Cmd_UQ, <<"U", "1">>, Cmd_DQ, <<"U">> \o PyStr(m)>>

\* C1: power() sends 'U?', 'D?' when the device is in watts mode and 'U?',
\* 'U1', 'D?', 'U<original>' otherwise; when it returns, the device is in the
\* mode it had before the call and the value is the watts reading of 'D?',
\* tagged as watts.
C1_PowerSequence ==
    /\ pc = "L95" =>
        /\ sent = PowerCommands(unitsAtCall)
        /\ devUnits = unitsAtCall
        /\ power = PyFloat(Inputs[devPower][1])
    /\ PowerReturned =>
        /\ sent = PowerCommands(unitsAtCall)
        /\ devUnits = unitsAtCall
        /\ ret.value.units = "watts"
        /\ \E i \in 1..Len(Inputs) : ret.value.magnitude = PyFloat(Inputs[i][1])

C1_Witness ==
    /\ PowerReturned
    /\ unitsAtCall = 3
    /\ sent = <<Cmd_UQ, <<"U", "1">>, Cmd_DQ, <<"U", "3">>>>
    /\ ret.value = [magnitude |-> <<3, 1000>>, units |-> "watts"]

\* C2: when power() raises after 'U1' was sent, no restoring command was
\* sent, nothing was retried, and the device is left in watts mode although
\* it was in another mode before the call.
C2_PowerNotAtomic ==
    (PowerRaised /\ \E i \in 1..Len(sent) : sent[i] = <<"U", "1">>) =>
        /\ unitsAtCall # 1
        /\ devUnits = 1
        /\ sent \in {<<Cmd_UQ, <<"U", "1">>>>, <<Cmd_UQ, <<"U", "1">>, Cmd_DQ>>}
        /\ ret.value = "VisaIOError"

C2_Witness ==
    /\ PowerRaised
    /\ unitsAtCall = 4
    /\ devUnits = 1
    /\ sent = <<Cmd_UQ, <<"U", "1">>, Cmd_DQ>>

RoundTrip ==
    /\ pc = "idle"
    /\ ret.op = "get_units" /\ ret.status = "ok"
    /\ prev.op = "set_units" /\ prev.status = "ok"

\* C3: get_units() right after set_units(token) returns the token, compared
\* case-insensitively, for each of watts, dBm, dB and REL.
C3_UnitsRoundTrip == RoundTrip => Lower(ret.value) = Lower(prev.arg)

\* C4: set_units with a string that is no spelling of watts, dbm, db or rel
\* raises, sends nothing and leaves the device's units mode unchanged.
C4_InvalidUnitsRejected ==
    (pc = "idle" /\ ret.op = "set_units" /\ ret.arg \notin ValidUnitsArgs) =>
        /\ ret.status = "error"
        /\ ret.value = "Exception"
        /\ sent = <<>>
        /\ devUnits = unitsAtCall

C4_Witness ==
    /\ pc = "idle"
    /\ ret = Raised("set_units", <<"a", "m", "p", "s">>, "Exception")
    /\ sent = <<>>
    /\ devUnits = 3

Bit(reg, k) == (reg \div (2 ^ k)) % 2 = 1

\* C5: is_measurement_valid is false exactly when the saturated (4),
\* out-of-range (8) or busy (32) bit of the status byte is set.
C5_ValidityBits ==
    (pc = "idle" /\ ret.op = "is_measurement_valid" /\ ret.status = "ok") =>
        (ret.value.valid <=> ~(Bit(ret.value.status_byte, 2) \/ Bit(ret.value.status_byte, 3)
                                \/ Bit(ret.value.status_byte, 5)))

C5_Witness ==
    /\ pc = "idle"
    /\ ret.op = "is_measurement_valid" /\ ret.status = "ok"
    /\ ret.value.status_byte = 211
    /\ ret.value.valid

(***************************************************************************)
(* Newport 2936-R: the device.                                             *)
(***************************************************************************)
NumChannels == 2

Channels == 1..NumChannels

CR == "\r"

LF == "\n"

\* 'text %d' % n: the fixed text of a command followed by the digits of n
Fmt(text, n) == <<text>> \o PyStr(n)

Cmd_power == <<"pm:power?">>

\* the setting that each command of the device writes
SettingOf ==
    ("pm:units " :> "units") @@ ("pm:analogfilter " :> "analogfilter")
        @@ ("pm:digitalfilter " :> "digitalfilter") @@ ("pm:auto " :> "auto")
        @@ ("pm:range " :> "range")

\* the channel selected on the device after it received cmd
DevChannelAfter(cmd, channel) ==
    IF cmd[1] = "pm:channel " /\ PyInt(Tail(cmd)) \in Channels THEN PyInt(Tail(cmd)) ELSE channel

\* the device's settings after it received cmd: a setting command acts on
\* the selected channel, the command syntax names no channel
DevSettingsAfter(cmd, channel, settings) ==
    IF cmd[1] \in DOMAIN SettingOf
    THEN [settings EXCEPT ![channel][SettingOf[cmd[1]]] = PyInt(Tail(cmd))]
    ELSE settings

\* the device's answer to 'pm:power?': the reading of the selected channel
PowerReply(channel) ==
    IF channel = 1 THEN <<"3", ".", "5", CR, LF>> ELSE <<"7", ".", "5", CR, LF>>

\* what the device sends back when it received cmd
DevAnswer(cmd, channel) == IF cmd = Cmd_power THEN PowerReply(channel) ELSE <<>>

\* the settings a channel was left with by earlier sessions
PriorSettings ==
    [units |-> 0, analogfilter |-> 4, digitalfilter |-> 10, auto |-> 1, range |-> 3]

(***************************************************************************)
(* Newport 2936-R: the driver.                                             *)
(***************************************************************************)
\* set_units: valid_units
valid_units_2936 ==
    (<<"a", "m", "p", "s">> :> 0) @@ (<<"v", "o", "l", "t", "s">> :> 1)
        @@ (T_watts :> 2) @@ (<<"w", "a", "t", "t", "s", "_", "c", "m", "2">> :> 3)
        @@ (<<"j", "o", "u", "l", "e", "s">> :> 4)
        @@ (<<"j", "o", "u", "l", "e", "s", "_", "c", "m", "2">> :> 5) @@ (T_dbm :> 6)

\* set_analogfilter: valid_modes
valid_modes ==
    (<<"N", "o", "n", "e">> :> 0) @@ (<<"2", "5", "0", "k", "h", "z">> :> 1)
        @@ (<<"1", "2", ".", "5", "k", "h", "z">> :> 2) @@ (<<"1", "k", "h", "z">> :> 3)
        @@ (<<"5", "h", "z">> :> 4)

\* set_autoranging: valid_auto, keyed by True and False.  A Python value is
\* written as its literal; a dict finds a key by == and hash, under which
\* 1 is True and 0 is False.
InValidAuto(auto) == auto \in {"True", "False", "1", "0"}

valid_auto(auto) == IF auto \in {"True", "1"} THEN 1 ELSE 0

Methods ==
    {"set_units", "set_analogfilter", "set_digitalfilter", "set_autoranging", "set_range",
     "get_power"}

\* the arguments the methods are called with
Args(method) ==
    CASE method = "set_units" ->
            {<<"W", "a", "t", "t", "s">>, <<"d", "B", "m">>, <<"m", "W">>, <<>>}
      [] method = "set_analogfilter" ->
            {<<"2", "5", "0", "K", "H", "z">>, <<"N", "o", "n", "e">>, <<"1", "0", "h", "z">>}
      [] method = "set_digitalfilter" -> {10000, 0 - 1, 10001}
      [] method = "set_autoranging" -> {"True", "False", "0", "2", "None"}
      [] method = "set_range" -> {7, 0 - 1, 8}
      [] method = "get_power" -> {NoArg}

\* the assert statements, which come before set_channel (lines 415, 441)
Asserted(method, arg) ==
    CASE method = "set_digitalfilter" -> arg >= 0 /\ arg <= 10000
      [] method = "set_range" -> arg >= 0 /\ arg <= 7
      [] OTHER -> TRUE

\* the dict lookups, which come after set_channel (lines 386, 405, 431)
Found(method, arg) ==
    CASE method = "set_units" -> Lower(arg) \in DOMAIN valid_units_2936
      [] method = "set_analogfilter" -> Lower(arg) \in DOMAIN valid_modes
      [] method = "set_autoranging" -> InValidAuto(arg)
      [] OTHER -> TRUE

\* the command each method writes after set_channel
OperationCmd(method, arg) ==
    CASE method = "set_units" -> Fmt("pm:units ", valid_units_2936[Lower(arg)])
      [] method = "set_analogfilter" -> Fmt("pm:analogfilter ", valid_modes[Lower(arg)])
      [] method = "set_digitalfilter" -> Fmt("pm:digitalfilter ", arg)
      [] method = "set_autoranging" -> Fmt("pm:auto ", valid_auto(arg))
      [] method = "set_range" -> Fmt("pm:range ", arg)
      [] method = "get_power" -> Cmd_power

\* a channel select that always uses the default channel=1
ChannelCmd_default(channel) == Fmt("pm:channel ", 1)

\* set_channel, line 364
ChannelCmd(channel) == Fmt("pm:channel ", channel)

\* str.strip("\r\n") of a one-character text
Strip(byte) == IF byte \in {CR, LF} THEN <<>> ELSE <<byte>>

MaxPending == 5

Outcome(status, value) == [status |-> status, value |-> value]

Init2936 ==
    /\ pm_pc = [c \in Callers |-> "idle"]
    /\ pm_call = [c \in Callers |-> <<>>]
    /\ pm_ret = [c \in Callers |-> <<>>]
    /\ pm_sent = <<>>
    /\ devChannel = 1
    /\ devSettings \in {[ch \in Channels |-> [PriorSettings EXCEPT !.units = IF ch = 1 THEN 2 ELSE u]] :
                            u \in {0, 2}}
    /\ rxbuf = <<>>
    /\ chanAtCall = devChannel
    /\ settingsAtCall = devSettings
    /\ RestRd
    /\ Rest1830
    /\ RestTek
    /\ RestStats

\* self.write(message): the device receives the command.  The log keeps who
\* sent it, the channel argument of that caller's call and the channel that
\* was selected on the device when the command took effect.
DeliverFor(c, cmd, want) ==
    /\ pm_sent' = Append(pm_sent, [by |-> c, cmd |-> cmd, want |-> want,
                                   on |-> DevChannelAfter(cmd, devChannel)])
    /\ devChannel' = DevChannelAfter(cmd, devChannel)
    /\ devSettings' = DevSettingsAfter(cmd, devChannel, devSettings)
    /\ rxbuf' = rxbuf \o DevAnswer(cmd, devChannel)

Deliver(c, cmd) == DeliverFor(c, cmd, pm_call[c].channel)

\* the log of commands starts afresh when no other call is under way
LogAfter(c) == IF \A d \in Callers \ {c} : pm_pc[d] = "idle" THEN <<>> ELSE pm_sent

\* the longest log a new call may add to
MaxSent == 4

\* a caller enters one of the per-channel methods
PmCallOf(c, methods) ==
    /\ pm_pc[c] = "idle"
    /\ Len(LogAfter(c)) <= MaxSent
    /\ \E method \in methods, channel \in Channels :
        \E arg \in Args(method) :
            /\ method = "get_power" => Len(rxbuf) + Len(PowerReply(channel)) <= MaxPending
            /\ pm_call' = [pm_call EXCEPT ![c] = [method |-> method, arg |-> arg, channel |-> channel]]
            /\ IF Asserted(method, arg)
               THEN /\ pm_pc' = [pm_pc EXCEPT ![c] = "set_channel"]
                    /\ UNCHANGED pm_ret
               ELSE /\ pm_pc' = [pm_pc EXCEPT ![c] = "done"]
                    /\ pm_ret' = [pm_ret EXCEPT ![c] = Outcome("error", "AssertionError")]
    /\ pm_sent' = LogAfter(c)
    /\ chanAtCall' = devChannel
    /\ settingsAtCall' = devSettings
    /\ UNCHANGED <<devChannel, devSettings, rxbuf>>
    /\ UNCHANGED not2936

PmCall(c) == PmCallOf(c, Methods)

\* self.set_channel(channel)
PmSetChannel(c) ==
    /\ pm_pc[c] = "set_channel"
    /\ Deliver(c, ChannelCmd(pm_call[c].channel))
    /\ pm_pc' = [pm_pc EXCEPT ![c] = "operate"]
    /\ UNCHANGED <<pm_call, pm_ret, chanAtCall, settingsAtCall>>
    /\ UNCHANGED not2936

\* the statement after set_channel: the lookup and the write of the command
PmOperate(c) ==
    /\ pm_pc[c] = "operate"
    /\ IF ~Found(pm_call[c].method, pm_call[c].arg)
       THEN /\ pm_pc' = [pm_pc EXCEPT ![c] = "done"]
            /\ pm_ret' = [pm_ret EXCEPT ![c] = Outcome("error", "KeyError")]
            /\ UNCHANGED <<pm_sent, devChannel, devSettings, rxbuf>>
       ELSE /\ Deliver(c, OperationCmd(pm_call[c].method, pm_call[c].arg))
            /\ IF pm_call[c].method = "get_power"
               THEN /\ pm_pc' = [pm_pc EXCEPT ![c] = "read"]
                    /\ UNCHANGED pm_ret
               ELSE /\ pm_pc' = [pm_pc EXCEPT ![c] = "done"]
                    /\ pm_ret' = [pm_ret EXCEPT ![c] = Outcome("ok", <<>>)]
    /\ UNCHANGED <<pm_call, chanAtCall, settingsAtCall>>
    /\ UNCHANGED not2936

\* read(), lines 343-349, once a byte is there, and float() of what it returns
PmRead(c) ==
    /\ pm_pc[c] = "read"
    /\ rxbuf # <<>>
    /\ rxbuf' = Tail(rxbuf)
    /\ pm_pc' = [pm_pc EXCEPT ![c] = "done"]
    /\ pm_ret' = [pm_ret EXCEPT ![c] =
            IF IsFloatText(Strip(Head(rxbuf)))
            THEN Outcome("ok", PyFloat(Strip(Head(rxbuf))))
            ELSE Outcome("error", "ValueError")]
    /\ UNCHANGED <<pm_call, pm_sent, devChannel, devSettings, chanAtCall, settingsAtCall>>
    /\ UNCHANGED not2936

\* the call returns or raises to its caller
PmReturn(c) ==
    /\ pm_pc[c] = "done"
    /\ pm_pc' = [pm_pc EXCEPT ![c] = "idle"]
    /\ pm_call' = [pm_call EXCEPT ![c] = <<>>]
    /\ pm_ret' = [pm_ret EXCEPT ![c] = <<>>]
    /\ pm_sent' = LogAfter(c)
    /\ UNCHANGED <<devChannel, devSettings, rxbuf, chanAtCall, settingsAtCall>>
    /\ UNCHANGED not2936

\* one caller: every call completes before the next one starts
Next2936 ==
    \/ PmCall(1)
    \/ PmSetChannel(1)
    \/ PmOperate(1)
    \/ PmRead(1)
    \/ PmReturn(1)

Spec2936 == Init2936 /\ [][Next2936]_vars

\* the methods two callers of one connection use at the same time
SharedMethods == {"set_range", "get_power"}

\* two callers and no lock: the statements of their calls interleave
NextShared ==
    \E c \in Callers :
        \/ PmCallOf(c, SharedMethods)
        \/ PmSetChannel(c)
        \/ PmOperate(c)
        \/ PmRead(c)
        \/ PmReturn(c)

SpecShared == Init2936 /\ [][NextShared]_vars

(***************************************************************************)
(* Newport 2936-R: properties.                                             *)
(***************************************************************************)
IsChannelSelect(cmd) == cmd[1] = "pm:channel "

\* the last n bytes of the receive buffer
Pending(n) == SubSeq(rxbuf, Len(rxbuf) - n + 1, Len(rxbuf))

\* C6: every operation command of a call with channel N is directly preceded
\* by 'pm:channel N', and it takes effect on channel N: a setting changes on
\* channel N only, a power query is answered with the reading of channel N.
C6_ChannelSelectedFirst ==
    /\ \A i \in 1..Len(pm_sent) :
        ~IsChannelSelect(pm_sent[i].cmd) =>
            /\ i > 1
            /\ pm_sent[i - 1].cmd = <<"pm:channel ">> \o PyStr(pm_call[1].channel)
    /\ pm_pc[1] = "read" =>
            Pending(Len(PowerReply(pm_call[1].channel))) = PowerReply(pm_call[1].channel)
    /\ (pm_pc[1] = "done" /\ pm_ret[1].status = "ok" /\ pm_call[1].method # "get_power") =>
            /\ Len(pm_sent) = 2
            /\ devChannel = pm_call[1].channel
            /\ \A ch \in Channels, f \in DOMAIN PriorSettings :
                devSettings[ch][f] =
                    IF ch = pm_call[1].channel /\ f = SettingOf[pm_sent[2].cmd[1]]
                    THEN PyInt(Tail(pm_sent[2].cmd))
                    ELSE settingsAtCall[ch][f]

C6_Witness ==
    /\ pm_pc[1] = "done"
    /\ pm_call[1].method = "set_range"
    /\ pm_call[1].arg = 7
    /\ pm_call[1].channel = 2
    /\ pm_ret[1].status = "ok"
    /\ chanAtCall = 1
    /\ settingsAtCall[2].range = 3
    /\ devSettings[2].range = 7
    /\ devSettings[1].range = 3

\* C7: a setter that raises for its argument has sent no command, and the
\* device's selected channel and settings are as they were.
C7_InvalidArgSendsNothing ==
    (pm_pc[1] = "done" /\ pm_call[1].method # "get_power" /\ pm_ret[1].status = "error") =>
        /\ pm_sent = <<>>
        /\ devChannel = chanAtCall
        /\ devSettings = settingsAtCall

(***************************************************************************)
(* Tektronix scope: exact rational arithmetic for the floats.              *)
(***************************************************************************)
Rat(n) == <<n, 1>>

RAdd(a, b) == <<a[1] * b[2] + b[1] * a[2], a[2] * b[2]>>

RSub(a, b) == <<a[1] * b[2] - b[1] * a[2], a[2] * b[2]>>

RMul(a, b) == <<a[1] * b[1], a[2] * b[2]>>

REq(a, b) == a[1] * b[2] = b[1] * a[2]

RLess(a, b) == a[1] * b[2] < b[1] * a[2]

(***************************************************************************)
(* Tektronix scope: the device.                                            *)
(***************************************************************************)
\* ASCII codes of the characters that occur in a curve reply
Ord(c) ==
    CASE IsDigit(c) -> 48 + DigitVal(c)
      [] c = "#" -> 35
      [] c = "," -> 44
      [] c = "-" -> 45
      [] c = LF -> 10

Bytes(text) == [i \in 1..Len(text) |-> Ord(text[i])]

Q == "\""

\* What the scope has acquired: the samples of each channel's record and the
\* waveform preamble, as the texts the scope answers with.
Acquisitions ==
    << [ samples |-> << <<10, 20, 30, 40>>, <<0 - 5, 7>> >>,
         xincr |-> <<"1", ".", "0">>,  ymult |-> <<"1", ".", "0">>,
         xzero |-> <<"0", ".", "0">>,  yzero |-> <<"0", ".", "0">>,
         pt_off |-> <<"0", ".", "0">>, yoff |-> <<"0", ".", "0">>,
         xunit |-> <<Q, "S", Q>>, yunit |-> <<Q, "V", Q>> ],
       [ samples |-> << <<0 - 32768, 32767, 0 - 1>>, <<256, 0 - 256, 255, 1, 0>> >>,
         xincr |-> <<"0", ".", "5">>,  ymult |-> <<"2", ".", "0">>,
         xzero |-> <<"-", "1", ".", "5">>,  yzero |-> <<"3">>,
         pt_off |-> <<"2">>, yoff |-> <<"-", "1", "0", ".", "0">>,
         xunit |-> <<Q, "s", Q>>, yunit |-> <<Q, "V", Q>> ] >>

ScopeChannels == 1..2

\* the transfer settings of a scope somebody else has used, and of a scope
\* that is already set up the way get_data sets it up
ScopeSettings ==
    { [source |-> 2, width |-> 1, encdg |-> "ASCII", start |-> 2, stop |-> 3],
      [source |-> 1, width |-> 2, encdg |-> "RIBinary", start |-> 1, stop |-> 10000] }

\* the scope's settings after it received cmd
ScopeAfter(cmd, sc) ==
    CASE cmd[1] = "data:source ch" -> [sc EXCEPT !.source = PyInt(Tail(cmd))]
      [] cmd[1] = "data:width " -> [sc EXCEPT !.width = PyInt(Tail(cmd))]
      [] cmd[1] = "data:encdg " -> [sc EXCEPT !.encdg = cmd[2]]
      [] cmd[1] = "data:start " -> [sc EXCEPT !.start = PyInt(Tail(cmd))]
      [] cmd[1] = "data:stop " -> [sc EXCEPT !.stop = PyInt(Tail(cmd))]
      [] OTHER -> sc

\* the samples the scope transfers: those of the source channel from data:start
\* to data:stop, as far as the record goes
Window(a, sc) ==
    LET rec == Acquisitions[a].samples[sc.source]
        last == IF sc.stop < Len(rec) THEN sc.stop ELSE Len(rec)
    IN  SubSeq(rec, sc.start, last)

\* one sample as `width` bytes, most significant first, two's complement
SampleBytes(v, width) ==
    IF width = 1 THEN <<v % 256>>
    ELSE <<(v % 65536) \div 256, v % 256>>

RECURSIVE Payload(_, _)
Payload(samples, width) ==
    IF samples = <<>> THEN <<>>
    ELSE SampleBytes(Head(samples), width) \o Payload(Tail(samples), width)

\* '#', the number of digits of the byte count, the byte count, the bytes
Block(payload) ==
    <<35>> \o Bytes(PyStr(Len(PyStr(Len(payload))))) \o Bytes(PyStr(Len(payload))) \o payload

RECURSIVE AsciiCurve(_)
AsciiCurve(samples) ==
    IF samples = <<>> THEN <<>>
    ELSE IF Len(samples) = 1 THEN Bytes(PyStr(Head(samples)))
    ELSE Bytes(PyStr(Head(samples))) \o <<44>> \o AsciiCurve(Tail(samples))

\* the scope's answer to 'curve?'
CurveReply(a, sc) ==
    IF sc.encdg = "RIBinary" THEN Block(Payload(Window(a, sc), sc.width))
    ELSE AsciiCurve(Window(a, sc))

\* what read_raw() may hand to the driver for a reply: the reply, the reply
\* with the message terminator after it, or the reply cut short by one byte
Transfers(reply) ==
    {reply, reply \o <<10>>} \cup (IF reply = <<>> THEN {} ELSE {SubSeq(reply, 1, Len(reply) - 1)})

\* the scope's answer to a waveform preamble query
ScopeReply(cmd, a, sc) ==
    CASE cmd = <<"wfmpre:nr_pt?">> -> PyStr(Len(Acquisitions[a].samples[sc.source]))
      [] cmd = <<"wfmpre:xincr?">> -> Acquisitions[a].xincr
      [] cmd = <<"wfmpre:ymult?">> -> Acquisitions[a].ymult
      [] cmd = <<"wfmpre:xzero?">> -> Acquisitions[a].xzero
      [] cmd = <<"wfmpre:yzero?">> -> Acquisitions[a].yzero
      [] cmd = <<"wfmpre:pt_off?">> -> Acquisitions[a].pt_off
      [] cmd = <<"wfmpre:yoff?">> -> Acquisitions[a].yoff
      [] cmd = <<"wfmpre:xunit?">> -> Acquisitions[a].xunit
      [] cmd = <<"wfmpre:yunit?">> -> Acquisitions[a].yunit

(***************************************************************************)
(* Tektronix scope: the driver, TekScope.get_data.                         *)
(***************************************************************************)
PyVersions == {2, 3}

\* a stop point taken from the scope's answer to 'wfmpre:nr_pt?'
StopAfterQuery_reported(nr_pt) == nr_pt

\* lines 64-65: stop = int(inst.ask("wfmpre:nr_pt?")); stop = 10000
StopAfterQuery(nr_pt) == 10000

WriteStep(cmd) == [kind |-> "write", cmd |-> cmd, var |-> "", conv |-> ""]

AskStep(cmd, var, conv) == [kind |-> "ask", cmd |-> cmd, var |-> var, conv |-> conv]

ReadRawStep == [kind |-> "read_raw", cmd |-> <<>>, var |-> "raw_bin", conv |-> ""]

\* a script that asks for the scale factors before it fetches the curve
GetDataScript_late_fetch(channel, stop) ==
    << WriteStep(Fmt("data:source ch", channel)),
       AskStep(<<"wfmpre:nr_pt?">>, "stop", "stop"),
       WriteStep(<<"data:width ", "2">>),
       WriteStep(<<"data:encdg ", "RIBinary">>),
       WriteStep(<<"data:start ", "1">>),
       WriteStep(Fmt("data:stop ", stop)),
       AskStep(<<"wfmpre:xincr?">>, "x_scale", "float"),
       WriteStep(<<"curve?">>),
       ReadRawStep,
       AskStep(<<"wfmpre:ymult?">>, "y_scale", "float"),
       AskStep(<<"wfmpre:xzero?">>, "x_zero", "float"),
       AskStep(<<"wfmpre:yzero?">>, "y_zero", "float"),
       AskStep(<<"wfmpre:pt_off?">>, "x_offset", "float"),
       AskStep(<<"wfmpre:yoff?">>, "y_offset", "float"),
       AskStep(<<"wfmpre:xunit?">>, "x_unit", "unit"),
       AskStep(<<"wfmpre:yunit?">>, "y_unit", "unit") >>

\* lines 63-83: the bus transfers of get_data, in program order
GetDataScript(channel, stop) ==
    << WriteStep(Fmt("data:source ch", channel)),
       AskStep(<<"wfmpre:nr_pt?">>, "stop", "stop"),
       WriteStep(<<"data:width ", "2">>),
       WriteStep(<<"data:encdg ", "RIBinary">>),
       WriteStep(<<"data:start ", "1">>),
       WriteStep(Fmt("data:stop ", stop)),
       WriteStep(<<"curve?">>),
       ReadRawStep,
       AskStep(<<"wfmpre:xincr?">>, "x_scale", "float"),
       AskStep(<<"wfmpre:ymult?">>, "y_scale", "float"),
       AskStep(<<"wfmpre:xzero?">>, "x_zero", "float"),
       AskStep(<<"wfmpre:yzero?">>, "y_zero", "float"),
       AskStep(<<"wfmpre:pt_off?">>, "x_offset", "float"),
       AskStep(<<"wfmpre:yoff?">>, "y_offset", "float"),
       AskStep(<<"wfmpre:xunit?">>, "x_unit", "unit"),
       AskStep(<<"wfmpre:yunit?">>, "y_unit", "unit") >>

NoLocals ==
    [stop |-> 0, raw_bin |-> <<>>, x_scale |-> Rat(0), y_scale |-> Rat(0), x_zero |-> Rat(0),
     y_zero |-> Rat(0), x_offset |-> Rat(0), y_offset |-> Rat(0), x_unit |-> <<>>, y_unit |-> <<>>]

\* whether int() or float() accepts the reply
Converts(conv, reply) ==
    CASE conv = "stop" -> IsIntText(reply)
      [] conv = "float" -> IsFloatText(reply)
      [] OTHER -> TRUE

\* the value assigned from a reply: int() and line 65, float(), or [1:-1]
Converted(conv, reply) ==
    CASE conv = "stop" -> StopAfterQuery(PyInt(reply))
      [] conv = "float" -> PyFloat(reply)
      [] conv = "unit" -> SubSeq(reply, 2, Len(reply) - 1)

\* the transfer get_data makes next: every transfer made so far is in tk_io
CurrentStep == GetDataScript(tk_channel, tk_loc.stop)[Len(tk_io) + 1]

InScript == tk_pc = "io"

\* where get_data is once the log of its transfers is io
AfterTransfer(io) ==
    IF Len(io) = Len(GetDataScript(tk_channel, tk_loc.stop)) THEN "decode" ELSE "io"

InitTek ==
    /\ pyMajor \in PyVersions
    /\ acq \in 1..Len(Acquisitions)
    /\ scope \in ScopeSettings
    /\ tk_pc = "idle"
    /\ tk_channel = 1
    /\ tk_loc = NoLocals
    /\ tk_io = <<>>
    /\ tk_ret = <<>>
    /\ Rest1830
    /\ Rest2936
    /\ RestStats

TkRaise(kind) ==
    /\ tk_pc' = "done"
    /\ tk_ret' = Outcome("error", kind)

TkCall ==
    /\ tk_pc = "idle"
    /\ \E channel \in ScopeChannels : tk_channel' = channel
    /\ tk_pc' = "io"
    /\ tk_loc' = NoLocals
    /\ tk_io' = <<>>
    /\ UNCHANGED <<pyMajor, acq, scope, tk_ret>>
    /\ UNCHANGED notTek

\* inst.write(cmd)
TkWrite ==
    /\ InScript
    /\ CurrentStep.kind = "write"
    /\ \E io \in WriteOutcomes :
        IF io = "ok"
        THEN /\ tk_io' = Append(tk_io, [kind |-> "write", cmd |-> CurrentStep.cmd])
             /\ scope' = ScopeAfter(CurrentStep.cmd, scope)
             /\ tk_pc' = AfterTransfer(tk_io')
             /\ UNCHANGED tk_ret
        ELSE /\ TkRaise("VisaIOError")
             /\ UNCHANGED <<tk_io, scope>>
    /\ UNCHANGED <<pyMajor, acq, tk_channel, tk_loc>>
    /\ UNCHANGED notTek

\* var = conv(inst.ask(cmd))
TkAsk ==
    /\ InScript
    /\ CurrentStep.kind = "ask"
    /\ \E io \in QueryOutcomes :
        /\ tk_io' = IF io = "write_fails" THEN tk_io
                    ELSE Append(tk_io, [kind |-> "ask", cmd |-> CurrentStep.cmd])
        /\ IF io # "ok"
           THEN TkRaise("VisaIOError") /\ UNCHANGED tk_loc
           ELSE IF ~Converts(CurrentStep.conv, ScopeReply(CurrentStep.cmd, acq, scope))
           THEN TkRaise("ValueError") /\ UNCHANGED tk_loc
           ELSE /\ tk_loc' = [tk_loc EXCEPT ![CurrentStep.var] =
                                Converted(CurrentStep.conv, ScopeReply(CurrentStep.cmd, acq, scope))]
                /\ tk_pc' = AfterTransfer(tk_io')
                /\ UNCHANGED tk_ret
    /\ UNCHANGED <<pyMajor, acq, scope, tk_channel>>
    /\ UNCHANGED notTek

\* raw_bin = inst.read_raw()
TkReadRaw ==
    /\ InScript
    /\ CurrentStep.kind = "read_raw"
    /\ \/ \E raw \in Transfers(CurveReply(acq, scope)) :
            /\ tk_io' = Append(tk_io, [kind |-> "read_raw", cmd |-> <<>>])
            /\ tk_loc' = [tk_loc EXCEPT !.raw_bin = raw]
            /\ tk_pc' = AfterTransfer(tk_io')
            /\ UNCHANGED tk_ret
       \/ /\ TkRaise("VisaIOError")
          /\ UNCHANGED <<tk_io, tk_loc>>
    /\ UNCHANGED <<pyMajor, acq, scope, tk_channel>>
    /\ UNCHANGED notTek

\* the bytes raw_bin[lo:hi] of a Python slice with 0 <= lo
Slice(raw, lo, hi) == SubSeq(raw, lo + 1, IF hi < Len(raw) THEN hi ELSE Len(raw))

IsDigitByte(b) == b >= 48 /\ b <= 57

\* the text of a run of digit bytes
Text(bytes) == [i \in 1..Len(bytes) |-> Digits[bytes[i] - 47]]

\* a header test that looks at the first byte on either Python
HeaderMissing_bytewise(raw, py) == raw[1] # 35

\* line 87: raw_bin[0] != b'#'.  On Python 2 raw_bin is a str and raw_bin[0]
\* its first character; on Python 3 raw_bin[0] is an int, which never
\* equals the bytes b'#'.
HeaderMissing(raw, py) == IF py = 2 THEN raw[1] # 35 ELSE TRUE

\* line 89: header_width = int(raw_bin[1]) + 2
header_width(raw) == (raw[2] - 48) + 2

\* line 90: num_bytes = int(raw_bin[2:header_width])
num_bytes(raw) == PyInt(Text(Slice(raw, 2, header_width(raw))))

\* two bytes, most significant first, as a signed 16-bit integer ('>i2')
Int16(hi, lo) == IF hi * 256 + lo >= 32768 THEN hi * 256 + lo - 65536 ELSE hi * 256 + lo

\* a decoding that takes every whole sample after the header (count=-1)
raw_data_y_whole_buffer(raw) ==
    [i \in 1..((Len(raw) - header_width(raw)) \div 2) |->
        Int16(raw[header_width(raw) + 2 * i - 1], raw[header_width(raw) + 2 * i])]

\* lines 92-93: np.frombuffer(raw_bin, dtype='>i2', offset=header_width, count=num_bytes//2)
raw_data_y(raw) ==
    [i \in 1..(num_bytes(raw) \div 2) |->
        Int16(raw[header_width(raw) + 2 * i - 1], raw[header_width(raw) + 2 * i])]

\* line 85: np.arange(1, stop+1)
raw_data_x(stop) == [i \in 1..stop |-> i]

\* lines 95-96: (raw_data - offset)*scale + zero, element by element
Scaled(raw_data, offset, scale, zero) ==
    [i \in 1..Len(raw_data) |-> RAdd(RMul(RSub(Rat(raw_data[i]), offset), scale), zero)]

\* the units the registry u knows
KnownUnits == {<<"s">>, <<"S">>, <<"V">>}

\* lines 87-96: the exception the decoding raises, or "none"
DecodeError(raw, py, loc) ==
    IF raw = <<>> THEN "IndexError"
    ELSE IF HeaderMissing(raw, py) THEN "Exception"
    ELSE IF Len(raw) < 2 THEN "IndexError"
    ELSE IF ~IsDigitByte(raw[2]) THEN "ValueError"
    ELSE IF Slice(raw, 2, header_width(raw)) = <<>> THEN "ValueError"
    ELSE IF \E i \in 3..Len(Slice(raw, 0, header_width(raw))) : ~IsDigitByte(raw[i]) THEN "ValueError"
    ELSE IF header_width(raw) > Len(raw) THEN "ValueError"
    ELSE IF Len(raw) - header_width(raw) < 2 * (num_bytes(raw) \div 2) THEN "ValueError"
    ELSE IF loc.x_unit \notin KnownUnits \/ loc.y_unit \notin KnownUnits THEN "UndefinedUnitError"
    ELSE "none"

\* line 98: return data_x, data_y
Decoded(raw, loc) ==
    << [units |-> loc.x_unit,
        magnitude |-> Scaled(raw_data_x(loc.stop), loc.x_offset, loc.x_scale, loc.x_zero)],
       [units |-> loc.y_unit,
        magnitude |-> Scaled(raw_data_y(raw), loc.y_offset, loc.y_scale, loc.y_zero)] >>

\* lines 85-98
TkDecode ==
    /\ tk_pc = "decode"
    /\ tk_pc' = "done"
    /\ tk_ret' = IF DecodeError(tk_loc.raw_bin, pyMajor, tk_loc) # "none"
                 THEN Outcome("error", DecodeError(tk_loc.raw_bin, pyMajor, tk_loc))
                 ELSE Outcome("ok", Decoded(tk_loc.raw_bin, tk_loc))
    /\ UNCHANGED <<pyMajor, acq, scope, tk_channel, tk_loc, tk_io>>
    /\ UNCHANGED notTek

\* get_data returns or raises to its caller
TkReturn ==
    /\ tk_pc = "done"
    /\ tk_pc' = "idle"
    /\ tk_ret' = <<>>
    /\ tk_loc' = NoLocals
    /\ tk_io' = <<>>
    /\ UNCHANGED <<pyMajor, acq, scope, tk_channel>>
    /\ UNCHANGED notTek

\* the scope acquires another waveform between two calls
Acquire ==
    /\ tk_pc = "idle"
    /\ \E a \in 1..Len(Acquisitions) : a # acq /\ acq' = a
    /\ UNCHANGED <<pyMajor, scope, tk_pc, tk_channel, tk_loc, tk_io, tk_ret>>
    /\ UNCHANGED notTek

NextTek ==
    \/ TkCall
    \/ TkWrite
    \/ TkAsk
    \/ TkReadRaw
    \/ TkDecode
    \/ TkReturn
    \/ Acquire

SpecTek == InitTek /\ [][NextTek]_vars

(***************************************************************************)
(* Tektronix scope: properties.                                            *)
(***************************************************************************)
IsPrefix(a, b) == Len(a) <= Len(b) /\ a = SubSeq(b, 1, Len(a))

IsWrite(entry) == entry.kind = "write"

\* the commands written so far, without the queries
Written == [i \in 1..Len(SelectSeq(tk_io, IsWrite)) |-> SelectSeq(tk_io, IsWrite)[i].cmd]

ConfigThenFetch(channel) ==
    << <<"data:source ch">> \o PyStr(channel), <<"data:width ", "2">>, <<"data:encdg ", "RIBinary">>,
       <<"data:start ", "1">>, <<"data:stop ", "1", "0", "0", "0", "0">>, <<"curve?">> >>

PreambleQueries ==
    { <<"wfmpre:xincr?">>, <<"wfmpre:ymult?">>, <<"wfmpre:xzero?">>, <<"wfmpre:yzero?">>,
      <<"wfmpre:pt_off?">>, <<"wfmpre:yoff?">>, <<"wfmpre:xunit?">>, <<"wfmpre:yunit?">> }

\* C8: get_data writes data:source, data:width 2, data:encdg RIBinary,
\* data:start 1, data:stop 10000 in this order and then curve?; the raw read
\* directly follows curve?; the scale, offset and unit queries are round trips
\* of their own after the raw read; the stop point is 10000 whatever the scope
\* reports as its number of points.
C8_ConfigureBeforeFetch ==
    /\ IsPrefix(Written, ConfigThenFetch(tk_channel))
    /\ \A i \in 1..Len(tk_io) :
        /\ tk_io[i].kind = "read_raw" => i > 1 /\ tk_io[i - 1] = [kind |-> "write", cmd |-> <<"curve?">>]
        /\ (tk_io[i] = [kind |-> "write", cmd |-> <<"curve?">>] /\ i < Len(tk_io)) =>
                tk_io[i + 1].kind = "read_raw"
        /\ (tk_io[i].kind = "ask" /\ tk_io[i].cmd \in PreambleQueries) =>
                \E j \in 1..(i - 1) : tk_io[j].kind = "read_raw"
    /\ (\E i \in 1..Len(tk_io) : tk_io[i].kind = "read_raw") =>
            scope = [source |-> tk_channel, width |-> 2, encdg |-> "RIBinary", start |-> 1,
                     stop |-> 10000]
    /\ tk_pc = "decode" =>
            \A q \in PreambleQueries :
                Cardinality({i \in 1..Len(tk_io) : tk_io[i] = [kind |-> "ask", cmd |-> q]}) = 1

C8_Witness ==
    /\ tk_pc = "decode"
    /\ tk_channel = 2
    /\ acq = 1
    /\ Len(tk_io) = 16
    /\ tk_io[2] = [kind |-> "ask", cmd |-> <<"wfmpre:nr_pt?">>]
    /\ scope.stop = 10000

GetDataReturned == tk_pc = "done" /\ tk_ret.status = "ok"

\* the block is exactly what the scope sent for its samples
WellFormed == tk_loc.raw_bin = Block(Payload(Acquisitions[acq].samples[tk_channel], 2))

Increasing(seq) == \A i \in 1..(Len(seq) - 1) : RLess(seq[i], seq[i + 1])

\* C9: x and y of a successful get_data have the same length, the requested
\* point count, and x is strictly increasing for a positive increment.
C9_EqualLengths ==
    (GetDataReturned /\ WellFormed) =>
        /\ Len(tk_ret.value[1].magnitude) = Len(tk_ret.value[2].magnitude)
        /\ Len(tk_ret.value[1].magnitude) = 10000
        /\ RLess(Rat(0), tk_loc.x_scale) => Increasing(tk_ret.value[1].magnitude)

\* C10: for a block of N samples get_data returns N values y[i] = y_zero +
\* (raw[i] - y_offset) * y_multiplier and N values x[i] = x_zero + (i+1 -
\* x_point_offset) * x_increment (i counted from 0); samples 10,20,30,40 with
\* unit scales and zero offsets give y = 10,20,30,40 and x = 1,2,3,4.
C10_DecodeAndScale ==
    (GetDataReturned /\ WellFormed) =>
        LET a == Acquisitions[acq]
            raw == a.samples[tk_channel]
            x == tk_ret.value[1].magnitude
            y == tk_ret.value[2].magnitude
        IN  /\ Len(y) = Len(raw)
            /\ \A i \in 1..Len(raw) :
                REq(y[i], RAdd(PyFloat(a.yzero), RMul(RSub(Rat(raw[i]), PyFloat(a.yoff)), PyFloat(a.ymult))))
            /\ Len(x) = Len(raw)
            /\ \A i \in 1..Len(raw) :
                REq(x[i], RAdd(PyFloat(a.xzero), RMul(RSub(Rat(i), PyFloat(a.pt_off)), PyFloat(a.xincr))))
            /\ (acq = 1 /\ tk_channel = 1) =>
                /\ y = <<Rat(10), Rat(20), Rat(30), Rat(40)>>
                /\ x = <<Rat(1), Rat(2), Rat(3), Rat(4)>>

\* C11: get_data raises the missing-header error exactly when the first byte
\* of the raw block is not '#', and it never sends 'curve?' a second time.
C11_HeaderCheck ==
    /\ Cardinality({i \in 1..Len(tk_io) : tk_io[i] = [kind |-> "write", cmd |-> <<"curve?">>]}) <= 1
    /\ (tk_pc = "done" /\ Len(tk_io) = 16 /\ tk_loc.raw_bin # <<>>) =>
            ((tk_ret.status = "error" /\ tk_ret.value = "Exception") <=> tk_loc.raw_bin[1] # 35)

(***************************************************************************)
(* Tektronix scope: the decoding of get_data, lines 85-98, applied to      *)
(* blocks of any shape.                                                    *)
(***************************************************************************)
\* payload bytes: the samples -10, 20, -32768 and one byte more
PayloadBytes == <<255, 246, 0, 20, 128, 0, 7>>

\* the longest payload and the largest declared byte count of a block
MaxPayload == 6

\* blocks with a one-digit byte count: a first byte '#' or ':', a declared
\* count, and a payload shorter than, as long as or longer than declared
ShortBlocks ==
    { <<first, 49, 48 + declared>> \o SubSeq(PayloadBytes, 1, len) :
        first \in {35, 58}, declared \in 0..MaxPayload, len \in 0..MaxPayload }

\* blocks with a longer or damaged header, and no block at all
OtherBlocks ==
    { <<>>, <<35>>, <<35, 48>>, <<35, 65, 52>> \o SubSeq(PayloadBytes, 1, 4),
      <<35, 49, 65>> \o SubSeq(PayloadBytes, 1, 4),
      <<35, 50, 48, 52>> \o SubSeq(PayloadBytes, 1, 4),
      <<35, 50, 48, 52>> \o SubSeq(PayloadBytes, 1, 5),
      <<35, 51, 48, 48, 54>> \o SubSeq(PayloadBytes, 1, 6) }

SyntheticBlocks == ShortBlocks \cup OtherBlocks

\* the locals of get_data after line 83 when read_raw() returned raw
LocalsWith(raw) ==
    [NoLocals EXCEPT !.stop = StopAfterQuery(0), !.raw_bin = raw, !.x_scale = Rat(1),
                     !.y_scale = Rat(1), !.x_unit = <<"s">>, !.y_unit = <<"V">>]

InitDecode ==
    /\ pyMajor \in PyVersions
    /\ acq = 1
    /\ scope \in {sc \in ScopeSettings : sc.encdg = "RIBinary"}
    /\ tk_pc = "idle"
    /\ tk_channel = 1
    /\ tk_loc = NoLocals
    /\ tk_io = <<>>
    /\ tk_ret = <<>>
    /\ Rest1830
    /\ Rest2936
    /\ RestStats

\* get_data has reached line 85 with raw_bin holding some block
Present ==
    /\ tk_pc = "idle"
    /\ \E raw \in SyntheticBlocks : tk_loc' = LocalsWith(raw)
    /\ tk_pc' = "decode"
    /\ UNCHANGED <<pyMajor, acq, scope, tk_channel, tk_io, tk_ret>>
    /\ UNCHANGED notTek

NextDecode ==
    \/ Present
    \/ TkDecode
    \/ TkReturn

SpecDecode == InitDecode /\ [][NextDecode]_vars

Accepted == tk_pc = "done" /\ tk_ret.status = "ok"

\* the bytes after the header, and the declared byte count, read off the block
AfterHeader == Len(tk_loc.raw_bin) - (tk_loc.raw_bin[2] - 48) - 2

Declared == NatOf(Text(SubSeq(tk_loc.raw_bin, 3, (tk_loc.raw_bin[2] - 48) + 2)))

\* C12: a block get_data accepts has exactly the declared number of payload
\* bytes, and the declared number is even.
C12_ExactEvenPayload ==
    Accepted => (AfterHeader = Declared /\ Declared % 2 = 0)

\* C12, amended: a block get_data accepts has at least 2 * (declared \div 2)
\* payload bytes, and y holds exactly declared \div 2 samples, decoded in
\* order from the first payload bytes; an odd last byte and bytes after the
\* declared count are ignored.  A block with a whole header whose payload is
\* shorter than that is not decoded.
C12_DeclaredSamplesDecoded ==
    /\ Accepted =>
        LET raw == tk_loc.raw_bin
            hw == (raw[2] - 48) + 2
            y == tk_ret.value[2].magnitude
        IN  /\ AfterHeader >= 2 * (Declared \div 2)
            /\ Len(y) = Declared \div 2
            /\ \A i \in 1..Len(y) :
                LET v == raw[hw + 2 * i - 1] * 256 + raw[hw + 2 * i]
                IN  REq(y[i], Rat(IF v >= 32768 THEN v - 65536 ELSE v))
    /\ (tk_pc = "done" /\ tk_loc.raw_bin \in ShortBlocks /\ tk_loc.raw_bin[3] # 48
            /\ AfterHeader < 2 * (Declared \div 2)) => tk_ret.status = "error"

C12_Witness ==
    /\ Accepted
    /\ tk_loc.raw_bin = <<35, 49, 51, 255, 246, 0, 20>>
    /\ tk_ret.value[2].magnitude = <<Rat(0 - 10)>>

(***************************************************************************)
(* Tektronix scope: measurement statistics, the device.                    *)
(***************************************************************************)
Variants == {"TDS_3000", "MSO_DPO_4000"}

\* what a scope may answer to 'measu:statistics:mode?'
ModeReplies == {<<"OFF">>, <<"0">>, <<"ON">>, <<"ALL">>, <<"1">>}

\* how often the statistics window rolls on
MaxWindow == 2

Measurements == 1..2

\* the statistics of measurement num over window w, and the number of
\* samples of that window, as the texts the scope answers with
StatsOf(num, w) ==
    [value |-> PyStr(10 * w + num) \o <<".", "5">>,
     mean |-> PyStr(10 * w + 2),
     stddev |-> <<"0", ".">> \o PyStr(w + 1),
     minimum |-> PyStr(0 - (w + 1)),
     maximum |-> PyStr(10 * w + 9),
     units |-> <<Q, "V", Q>>,
     nsamps |-> PyStr(w + 2)]

Cmd_mode_query == <<"measu:statistics:mode?">>

Cmd_weighting_query == <<"measurement:statistics:weighting?">>

\* the scope's answer to a query, taken from its current window
StatsReply(cmd, mode, w) ==
    IF cmd = Cmd_mode_query THEN mode
    ELSE IF cmd = Cmd_weighting_query THEN StatsOf(1, w).nsamps
    ELSE LET st == StatsOf(PyInt(<<cmd[2]>>), w)
         IN  st.value \o <<";">> \o st.mean \o <<";">> \o st.stddev \o <<";">> \o st.minimum
                \o <<";">> \o st.maximum \o <<";">> \o st.units

\* the mode the scope reports after it received cmd: the mode set last
ModeAfter(cmd, mode) == IF cmd[1] = "measu:statistics:mode " THEN <<cmd[2]>> ELSE mode

(***************************************************************************)
(* Tektronix scope: measurement statistics, the driver.                    *)
(***************************************************************************)
\* str.split(sep)
RECURSIVE Split(_, _)
Split(text, sep) ==
    IF \A i \in 1..Len(text) : text[i] # sep THEN <<text>>
    ELSE LET i == CHOOSE i \in 1..Len(text) : text[i] = sep /\ \A j \in 1..(i - 1) : text[j] # sep
         IN  <<SubSeq(text, 1, i - 1)>> \o Split(SubSeq(text, i + 1, Len(text)), sep)

\* str.strip(ch)
RECURSIVE StripChar(_, _)
StripChar(text, ch) ==
    IF text = <<>> THEN text
    ELSE IF Head(text) = ch THEN StripChar(Tail(text), ch)
    ELSE IF text[Len(text)] = ch THEN StripChar(SubSeq(text, 1, Len(text) - 1), ch)
    ELSE text

\* Q_(text) for a number followed by a unit
QParses(text) == \E k \in 1..Len(text) : IsFloatText(SubSeq(text, 1, k))

Q_(text) ==
    LET k == CHOOSE k \in 1..Len(text) :
                /\ IsFloatText(SubSeq(text, 1, k))
                /\ \A j \in (k + 1)..Len(text) : ~IsFloatText(SubSeq(text, 1, j))
    IN  [magnitude |-> PyFloat(SubSeq(text, 1, k)), units |-> SubSeq(text, k + 1, Len(text))]

\* keys in another order than the query asks for the fields
keys_swapped == <<"value", "mean", "stddev", "maximum", "minimum">>

\* line 136
keys == <<"value", "mean", "stddev", "minimum", "maximum">>

\* a test that knows only the text 'OFF'
StatsOff_text_only(res) == res = <<"OFF">>

\* line 163: res in ['OFF', '0']
StatsOff(res) == res \in {<<"OFF">>, <<"0">>}

\* line 137: prefix + 'value?;mean?;stddev?;minimum?;maximum?;units?'
Cmd_stats(num) ==
    <<"measurement:meas">> \o PyStr(num) \o <<":", "value?;mean?;stddev?;minimum?;maximum?;units?">>

\* a token chosen by the class of the driver
ModeToken_by_variant(enable, v) ==
    IF enable THEN (IF v = "MSO_DPO_4000" THEN "ALL" ELSE "ON") ELSE "OFF"

\* line 167: 'ALL' if enable else 'OFF'; TDS_3000 and MSO_DPO_4000 override nothing
ModeToken(enable, v) == IF enable THEN "ALL" ELSE "OFF"

\* lines 138-139: units = res.pop(-1).strip('"'); {k: Q_(rval+units) for k, rval in zip(keys, res)}
StatsDict(res) ==
    LET units == StripChar(res[Len(res)], Q)
        n == IF Len(keys) < Len(res) - 1 THEN Len(keys) ELSE Len(res) - 1
    IN  [k \in {keys[i] : i \in 1..n} |->
            Q_(res[CHOOSE i \in 1..n : keys[i] = k] \o units)]

StatsFieldsParse(res) ==
    \A i \in 1..(Len(res) - 1) : i <= Len(keys) => QParses(res[i] \o StripChar(res[Len(res)], Q))

StatsMethods ==
    {"read_measurement_stats", "are_measurement_stats_on", "enable_measurement_stats",
     "disable_measurement_stats"}

\* the calls: num is used by read_measurement_stats, enable by enable_measurement_stats
StatsCalls ==
    {[method |-> "read_measurement_stats", num |-> n, enable |-> FALSE] : n \in Measurements}
        \cup {[method |-> "are_measurement_stats_on", num |-> 0, enable |-> FALSE]}
        \cup {[method |-> "enable_measurement_stats", num |-> 0, enable |-> b] : b \in BOOLEAN}
        \cup {[method |-> "disable_measurement_stats", num |-> 0, enable |-> FALSE]}

NoStatsCall == [method |-> "none", num |-> 0, enable |-> FALSE]

InitStats ==
    /\ variant \in Variants
    /\ devMode \in ModeReplies
    /\ devWindow = 0
    /\ st_pc = "idle"
    /\ st_call = NoStatsCall
    /\ st_io = <<>>
    /\ st_loc = <<>>
    /\ st_ret = <<>>
    /\ st_last = "none"
    /\ Rest1830
    /\ Rest2936
    /\ RestTek

StRaise(kind) ==
    /\ st_pc' = "done"
    /\ st_ret' = Outcome("error", kind)

StCall ==
    /\ st_pc = "idle"
    /\ \E call \in StatsCalls :
        /\ st_call' = call
        /\ st_pc' = IF call.method \in {"read_measurement_stats", "are_measurement_stats_on"}
                    THEN "mode" ELSE "write"
    /\ st_io' = <<>>
    /\ st_loc' = <<>>
    /\ UNCHANGED <<variant, devMode, devWindow, st_ret, st_last>>
    /\ UNCHANGED notStats

\* self.inst.ask(cmd): what the log of transfers holds afterwards
Asked(cmd, io) ==
    IF io = "write_fails" THEN st_io
    ELSE Append(st_io, [cmd |-> cmd, window |-> devWindow,
                        reply |-> IF io = "ok" THEN StatsReply(cmd, devMode, devWindow) ELSE <<>>])

\* are_measurement_stats_on, lines 161-163, and the test of line 129
StAskMode ==
    /\ st_pc = "mode"
    /\ \E io \in QueryOutcomes :
        /\ st_io' = Asked(Cmd_mode_query, io)
        /\ IF io # "ok" THEN StRaise("VisaIOError")
           ELSE IF st_call.method = "are_measurement_stats_on"
           THEN st_pc' = "done" /\ st_ret' = Outcome("ok", ~StatsOff(devMode))
           ELSE IF StatsOff(devMode) THEN StRaise("Exception")
           ELSE st_pc' = "stats" /\ UNCHANGED st_ret
    /\ UNCHANGED <<variant, devMode, devWindow, st_call, st_loc, st_last>>
    /\ UNCHANGED notStats

\* lines 136-139
StAskStats ==
    /\ st_pc = "stats"
    /\ \E io \in QueryOutcomes :
        /\ st_io' = Asked(Cmd_stats(st_call.num), io)
        /\ IF io # "ok" THEN StRaise("VisaIOError") /\ UNCHANGED st_loc
           ELSE LET res == Split(StatsReply(Cmd_stats(st_call.num), devMode, devWindow), ";")
                IN  IF ~StatsFieldsParse(res) THEN StRaise("UndefinedUnitError") /\ UNCHANGED st_loc
                    ELSE /\ st_loc' = StatsDict(res)
                         /\ st_pc' = "weighting"
                         /\ UNCHANGED st_ret
    /\ UNCHANGED <<variant, devMode, devWindow, st_call, st_last>>
    /\ UNCHANGED notStats

\* lines 141-143
StAskWeighting ==
    /\ st_pc = "weighting"
    /\ \E io \in QueryOutcomes :
        /\ st_io' = Asked(Cmd_weighting_query, io)
        /\ IF io # "ok" THEN StRaise("VisaIOError")
           ELSE IF ~IsIntText(StatsReply(Cmd_weighting_query, devMode, devWindow))
           THEN StRaise("ValueError")
           ELSE /\ st_pc' = "done"
                /\ st_ret' = Outcome("ok", st_loc @@
                        ("nsamps" :> PyInt(StatsReply(Cmd_weighting_query, devMode, devWindow))))
    /\ UNCHANGED <<variant, devMode, devWindow, st_call, st_loc, st_last>>
    /\ UNCHANGED notStats

\* enable_measurement_stats, line 167; disable_measurement_stats calls it with False
StWriteMode ==
    /\ st_pc = "write"
    /\ LET enable == st_call.method = "enable_measurement_stats" /\ st_call.enable
           cmd == <<"measu:statistics:mode ", ModeToken(enable, variant)>>
       IN  \E io \in WriteOutcomes :
            IF io = "ok"
            THEN /\ st_io' = Append(st_io, [cmd |-> cmd, window |-> devWindow, reply |-> <<>>])
                 /\ devMode' = ModeAfter(cmd, devMode)
                 /\ st_last' = IF enable THEN "enable" ELSE "disable"
                 /\ st_pc' = "done"
                 /\ st_ret' = Outcome("ok", <<>>)
            ELSE /\ StRaise("VisaIOError")
                 /\ UNCHANGED <<st_io, devMode, st_last>>
    /\ UNCHANGED <<variant, devWindow, st_call, st_loc>>
    /\ UNCHANGED notStats

StReturn ==
    /\ st_pc = "done"
    /\ st_pc' = "idle"
    /\ st_call' = NoStatsCall
    /\ st_io' = <<>>
    /\ st_loc' = <<>>
    /\ st_ret' = <<>>
    /\ UNCHANGED <<variant, devMode, devWindow, st_last>>
    /\ UNCHANGED notStats

\* the scope's rolling statistics window moves on, at any time
WindowAdvances ==
    /\ devWindow < MaxWindow
    /\ devWindow' = devWindow + 1
    /\ UNCHANGED <<variant, devMode, st_pc, st_call, st_io, st_loc, st_ret, st_last>>
    /\ UNCHANGED notStats

NextStats ==
    \/ StCall
    \/ StAskMode
    \/ StAskStats
    \/ StAskWeighting
    \/ StWriteMode
    \/ StReturn
    \/ WindowAdvances

SpecStats == InitStats /\ [][NextStats]_vars

(***************************************************************************)
(* Tektronix scope: measurement statistics, properties.                    *)
(***************************************************************************)
InReadStats == st_call.method = "read_measurement_stats"

\* C13: read_measurement_stats asks 'measu:statistics:mode?' first; when the
\* answer is 'OFF' or '0' it raises, and it sends neither the combined
\* statistics query nor the weighting query.
C13_StatsOffRaises ==
    InReadStats =>
        /\ st_io # <<>> => st_io[1].cmd = <<"measu:statistics:mode?">>
        /\ (st_io # <<>> /\ st_io[1].reply \in {<<"OFF">>, <<"0">>}) =>
            /\ Len(st_io) = 1
            /\ st_pc = "done"
            /\ st_ret.status = "error"
            /\ st_ret.value = "Exception"

C13_Witness ==
    /\ InReadStats
    /\ st_pc = "done"
    /\ st_io = <<[cmd |-> <<"measu:statistics:mode?">>, window |-> 1, reply |-> <<"0">>]>>
    /\ st_ret.status = "error"

ReadStatsReturned == InReadStats /\ st_pc = "done" /\ st_ret.status = "ok"

C15_TokenPerVariant ==
    /\ (st_pc = "done" /\ st_ret.status = "ok"
            /\ st_call.method \in {"enable_measurement_stats", "disable_measurement_stats"}) =>
        st_io = <<[cmd |-> <<"measu:statistics:mode ",
                             IF st_call.method = "enable_measurement_stats" /\ st_call.enable
                             THEN (IF variant = "MSO_DPO_4000" THEN "ALL" ELSE "ON")
                             ELSE "OFF">>,
                   window |-> devWindow, reply |-> <<>>]>>
    /\ (st_pc = "done" /\ st_ret.status = "ok" /\ st_call.method = "are_measurement_stats_on"
            /\ st_last # "none") =>
        st_ret.value = (st_last = "enable")

(***************************************************************************)
(* Newport 2936-R: properties of queries and of shared connections.        *)
(***************************************************************************)
\* C20: a query returns the device's complete answer to its own command and
\* leaves none of it unread: get_power returns the reading the device sent.
C20_QueryReturnsWholeAnswer ==
    (pm_pc[1] = "done" /\ pm_call[1].method = "get_power" /\ pm_ret[1].status = "ok") =>
        /\ pm_ret[1].value = PyFloat(SelectSeq(PowerReply(pm_call[1].channel),
                                               LAMBDA ch : ch \notin {CR, LF}))
        /\ rxbuf = <<>>

\* a command that is not a channel select
IsOperation(entry) == entry.cmd[1] # "pm:channel "

\* C16: with two callers on one connection an operation command acts on a
\* channel other than its caller's only if a channel select of the other
\* caller reached the device after the caller's own 'pm:channel N'; an
\* operation that directly follows a command of its own caller, as every
\* operation of serialised calls does, follows 'pm:channel N' and acts on
\* channel N.
C16_MisdirectedOnlyByInterleaving ==
    \A i \in 1..Len(pm_sent) :
        IsOperation(pm_sent[i]) =>
            /\ i > 1
            /\ (pm_sent[i - 1].by = pm_sent[i].by) =>
                    /\ pm_sent[i - 1].cmd = <<"pm:channel ">> \o PyStr(pm_sent[i].want)
                    /\ pm_sent[i].on = pm_sent[i].want
            /\ (pm_sent[i].on # pm_sent[i].want) =>
                    \E j \in 1..(i - 1), k \in 1..(i - 1) :
                        /\ j < k
                        /\ pm_sent[j].by = pm_sent[i].by
                        /\ pm_sent[j].cmd = <<"pm:channel ">> \o PyStr(pm_sent[i].want)
                        /\ pm_sent[k].by # pm_sent[i].by
                        /\ pm_sent[k].cmd = <<"pm:channel ">> \o PyStr(pm_sent[i].on)
                        /\ \A m \in (j + 1)..(i - 1) : pm_sent[m].by # pm_sent[i].by
                        /\ \A m \in (k + 1)..(i - 1) : IsOperation(pm_sent[m])

C16_Witness ==
    /\ Len(pm_sent) = 3
    /\ pm_sent[1] = [by |-> 1, cmd |-> <<"pm:channel ", "2">>, want |-> 2, on |-> 2]
    /\ pm_sent[2] = [by |-> 2, cmd |-> <<"pm:channel ", "1">>, want |-> 1, on |-> 1]
    /\ pm_sent[3] = [by |-> 1, cmd |-> <<"pm:range ", "7">>, want |-> 2, on |-> 1]
    /\ devSettings[1].range = 7
    /\ devSettings[2].range = 3

(***************************************************************************)
(* Newport 2936-R: read(), flush_read() and _initialize.                   *)
(***************************************************************************)
\* what a step of read() or flush_read() leaves alone
notRd ==
    <<vars1830, varsTek, varsStats, pm_pc, pm_call, pm_ret, pm_sent, devChannel, devSettings,
      chanAtCall, settingsAtCall>>

\* bytes that may be pending in the connection, and bytes the device may
\* still have to send, when a call starts
PendingAtCall == {<<>>, <<"7">>, <<"3", ".", "5", CR, LF>>}

ToSend == {<<>>, <<CR>>, <<"4", LF>>}

\* how many timeouts of a call are counted
MaxTimeouts == 2

Counted(n) == IF n < MaxTimeouts THEN n + 1 ELSE n

\* the connection of an instrument that is switched on
ConnInit ==
    /\ pm_pc = [c \in Callers |-> "idle"]
    /\ pm_call = [c \in Callers |-> <<>>]
    /\ pm_ret = [c \in Callers |-> <<>>]
    /\ pm_sent = <<>>
    /\ devChannel \in Channels
    /\ devSettings \in {[ch \in Channels |-> [PriorSettings EXCEPT !.units = IF ch = 1 THEN u1 ELSE u2]] :
                            u1 \in {0, 2}, u2 \in {2, 6}}
    /\ chanAtCall = devChannel
    /\ settingsAtCall = devSettings
    /\ rxbuf \in PendingAtCall
    /\ wire \in ToSend
    /\ rd_pc = "idle"
    /\ rd_op = "none"
    /\ rd_ret = <<>>
    /\ rd_timeouts = 0
    /\ rd_discarded = <<>>
    /\ rd_arrived = <<>>
    /\ in_ret = <<>>
    /\ Rest1830
    /\ RestTek
    /\ RestStats

InitRead == ConnInit /\ in_pc = "idle"

\* read() or flush_read() is called
RdCall ==
    /\ rd_pc = "idle"
    /\ in_pc = "idle"
    /\ \E op \in {"read", "flush_read"} : rd_op' = op /\ rd_pc' = op
    /\ rd_timeouts' = 0
    /\ rd_discarded' = <<>>
    /\ rd_arrived' = rxbuf
    /\ UNCHANGED <<rxbuf, wire, rd_ret, in_pc, in_ret>>
    /\ UNCHANGED notRd

\* line 347: read_bytes(1) hands over a byte; decode, strip, return
ReadByte ==
    /\ rd_pc = "read"
    /\ rxbuf # <<>>
    /\ rxbuf' = Tail(rxbuf)
    /\ rd_pc' = "done"
    /\ rd_ret' = Outcome("ok", Strip(Head(rxbuf)))
    /\ UNCHANGED <<wire, rd_op, rd_timeouts, rd_discarded, rd_arrived, in_pc, in_ret>>
    /\ UNCHANGED notRd

\* a read() whose timeout propagates
ReadTimeout_raises ==
    /\ rd_pc = "read"
    /\ rxbuf = <<>>
    /\ rd_timeouts' = Counted(rd_timeouts)
    /\ rd_pc' = "done"
    /\ rd_ret' = Outcome("error", "VisaIOError")
    /\ UNCHANGED <<rxbuf, wire, rd_op, rd_discarded, rd_arrived, in_pc, in_ret>>
    /\ UNCHANGED notRd

\* lines 344-349: read_bytes(1) times out, VisaIOError is passed over and
\* the loop goes round again
ReadTimeout ==
    /\ rd_pc = "read"
    /\ rxbuf = <<>>
    /\ rd_timeouts' = Counted(rd_timeouts)
    /\ UNCHANGED <<rxbuf, wire, rd_pc, rd_op, rd_ret, rd_discarded, rd_arrived, in_pc, in_ret>>
    /\ UNCHANGED notRd

\* a flush that returns after the first byte, as read() does
FlushByte_returns ==
    /\ rd_pc = "flush_read"
    /\ rxbuf # <<>>
    /\ rxbuf' = Tail(rxbuf)
    /\ rd_discarded' = Append(rd_discarded, Head(rxbuf))
    /\ rd_pc' = "done"
    /\ rd_ret' = Outcome("ok", <<>>)
    /\ UNCHANGED <<wire, rd_op, rd_timeouts, rd_arrived, in_pc, in_ret>>
    /\ UNCHANGED notRd

\* lines 353-355: read_bytes(1) hands over a byte, which is dropped
FlushByte ==
    /\ rd_pc = "flush_read"
    /\ rxbuf # <<>>
    /\ rxbuf' = Tail(rxbuf)
    /\ rd_discarded' = Append(rd_discarded, Head(rxbuf))
    /\ UNCHANGED <<wire, rd_pc, rd_op, rd_ret, rd_timeouts, rd_arrived, in_pc, in_ret>>
    /\ UNCHANGED notRd

\* lines 356-357: read_bytes(1) times out and flush_read returns
FlushTimeout ==
    /\ rd_pc = "flush_read"
    /\ rxbuf = <<>>
    /\ rd_timeouts' = Counted(rd_timeouts)
    /\ rd_pc' = "done"
    /\ rd_ret' = Outcome("ok", <<>>)
    /\ UNCHANGED <<rxbuf, wire, rd_op, rd_discarded, rd_arrived, in_pc, in_ret>>
    /\ UNCHANGED notRd

\* a byte of the device reaches the connection
DeviceSends ==
    /\ wire # <<>>
    /\ wire' = Tail(wire)
    /\ rxbuf' = Append(rxbuf, Head(wire))
    /\ rd_arrived' = IF rd_pc \in {"read", "flush_read"} THEN Append(rd_arrived, Head(wire))
                     ELSE rd_arrived
    /\ UNCHANGED <<rd_pc, rd_op, rd_ret, rd_timeouts, rd_discarded, in_pc, in_ret>>
    /\ UNCHANGED notRd

\* read() or flush_read() returns to a caller outside the driver
RdReturn ==
    /\ rd_pc = "done"
    /\ in_pc = "idle"
    /\ rd_pc' = "idle"
    /\ rd_op' = "none"
    /\ rd_ret' = <<>>
    /\ rd_timeouts' = 0
    /\ rd_discarded' = <<>>
    /\ rd_arrived' = <<>>
    /\ UNCHANGED <<rxbuf, wire, in_pc, in_ret>>
    /\ UNCHANGED notRd

NextRead ==
    \/ RdCall
    \/ ReadByte
    \/ ReadTimeout
    \/ FlushByte
    \/ FlushTimeout
    \/ DeviceSends
    \/ RdReturn

\* the driver keeps running and the device sends what it has to send
FairRead ==
    /\ WF_vars(ReadByte)
    /\ WF_vars(ReadTimeout)
    /\ WF_vars(FlushByte)
    /\ WF_vars(FlushTimeout)
    /\ WF_vars(DeviceSends)

SpecRead == InitRead /\ [][NextRead]_vars /\ FairRead

\* the device has no byte for the driver and will send none
Silent == rxbuf = <<>> /\ wire = <<>>

C18_FlushUntilTimeout ==
    /\ [](rd_op = "flush_read" /\ rd_pc = "done" =>
            /\ rd_ret = Outcome("ok", <<>>)
            /\ rd_timeouts = 1
            /\ rd_discarded = rd_arrived)
    /\ [][(rd_pc = "flush_read" /\ rd_pc' = "done") =>
            (rxbuf = <<>> /\ rxbuf' = <<>> /\ rd_discarded' = rd_arrived')]_vars
    /\ [][(rd_pc = "flush_read" /\ rd_discarded' # rd_discarded) =>
            (rd_discarded' = Append(rd_discarded, Head(rxbuf)) /\ rxbuf' = Tail(rxbuf))]_vars
    /\ (rd_pc = "flush_read") ~> (rd_pc = "done")

C18_Witness ==
    /\ rd_op = "flush_read"
    /\ rd_pc = "done"
    /\ rd_discarded = <<"3", ".", "5", CR, LF, "4">>
    /\ wire = <<LF>>

(***************************************************************************)
(* Newport 2936-R: _initialize, lines 331-337.                             *)
(***************************************************************************)
\* line 366: def set_units(self, units, channel=1)
set_units_default_channel == 1

\* the writes of set_channel(channel)
SetChannelWrites(channel) == <<[cmd |-> ChannelCmd(channel), channel |-> channel]>>

\* the writes of set_units(units, channel), lines 385-386
SetUnitsWrites(units, channel) ==
    <<[cmd |-> ChannelCmd(channel), channel |-> channel],
      [cmd |-> OperationCmd("set_units", units), channel |-> channel]>>

\* lines 334-337: the writes after flush_read(), in program order
InitializeScript ==
    SetChannelWrites(1) \o SetUnitsWrites(T_watts, set_units_default_channel)
        \o SetChannelWrites(2) \o SetUnitsWrites(T_watts, set_units_default_channel)

InitInitialize == ConnInit /\ in_pc = "new"

\* line 332: self.flush_read()
InBegin ==
    /\ in_pc = "new"
    /\ in_pc' = "flush"
    /\ rd_pc' = "flush_read"
    /\ rd_op' = "flush_read"
    /\ rd_arrived' = rxbuf
    /\ UNCHANGED <<rxbuf, wire, rd_ret, rd_timeouts, rd_discarded, in_ret>>
    /\ UNCHANGED notRd

\* flush_read() has returned
InFlushed ==
    /\ in_pc = "flush"
    /\ rd_pc = "done"
    /\ in_pc' = "script"
    /\ rd_pc' = "idle"
    /\ rd_op' = "none"
    /\ rd_ret' = <<>>
    /\ UNCHANGED <<rxbuf, wire, rd_timeouts, rd_discarded, rd_arrived, in_ret>>
    /\ UNCHANGED notRd

\* the next write of lines 334-337
InWrite ==
    /\ in_pc = "script"
    /\ \E io \in WriteOutcomes :
        IF io = "ok"
        THEN /\ DeliverFor(1, InitializeScript[Len(pm_sent) + 1].cmd,
                           InitializeScript[Len(pm_sent) + 1].channel)
             /\ IF Len(pm_sent) + 1 = Len(InitializeScript)
                THEN in_pc' = "done" /\ in_ret' = Outcome("ok", <<>>)
                ELSE UNCHANGED <<in_pc, in_ret>>
        ELSE /\ in_pc' = "done"
             /\ in_ret' = Outcome("error", "VisaIOError")
             /\ UNCHANGED <<pm_sent, devChannel, devSettings, rxbuf>>
    /\ UNCHANGED <<pm_pc, pm_call, pm_ret, chanAtCall, settingsAtCall>>
    /\ UNCHANGED <<wire, rd_pc, rd_op, rd_ret, rd_timeouts, rd_discarded, rd_arrived>>
    /\ UNCHANGED <<vars1830, varsTek, varsStats>>

NextInitialize ==
    \/ InBegin
    \/ FlushByte
    \/ FlushTimeout
    \/ DeviceSends
    \/ InFlushed
    \/ InWrite

SpecInitialize == InitInitialize /\ [][NextInitialize]_vars

\* C19: after _initialize both channels of the device are in watts mode,
\* whatever their units were before: 'pm:units 2' was applied to channel 1
\* and to channel 2.
C19_BothChannelsWatts ==
    (in_pc = "done" /\ in_ret.status = "ok") =>
        /\ \A ch \in Channels : devSettings[ch].units = 2
        /\ \A ch \in Channels :
            \E i \in 1..Len(pm_sent) : pm_sent[i].cmd = <<"pm:units ", "2">> /\ pm_sent[i].on = ch

====
